---------------------------- MODULE Spec2Model ----------------------------
(***************************************************************************)
(* AsfExtractor (media/libstagefright/AsfExtractor.cpp): the packet        *)
(* demultiplexer, the fragment reassembly, the seek engine and the pull    *)
(* loop, as a state machine.                                               *)
(*                                                                         *)
(* The byte source and the AsfStreamParser are the environment: the        *)
(* container is an input fixed in the initial state, and the content of    *)
(* each data packet is revealed the first time readPacket reads it and is  *)
(* the same on every later read of that packet.                            *)
(***************************************************************************)
EXTENDS Integers, Sequences, FiniteSets, TLC

(***************************************************************************)
(* Bounds of the model.                                                    *)
(***************************************************************************)
NumPackets == 3        \* whole packets in the data region (Spec)
FragPackets == 2       \* whole packets in the data region (SpecFrag)
PacketSize == 2        \* bytes per data packet
HeaderSize == 30       \* bytes of the header object
MaxSeeks == 2          \* reads carrying options, per behaviour
MaxObjFrag == 3        \* largest media object length (SpecFrag)
ConcPackets == 2       \* whole packets in the data region (SpecConc)
MaxTrailing == 3       \* container objects after the data object (SpecScan)
SkipPackets == 2       \* whole packets in the data region (SpecSkip)
LivePackets == 2       \* whole packets in the data region (SpecLive)
CopyPackets == 3       \* whole packets in the data region (SpecCopy)

(***************************************************************************)
(* Program constants.                                                      *)
(***************************************************************************)
ASF_DATA_OBJECT_HEADER_SIZE == 50
SCALE_100_NANOSEC_TO_USEC == 10
BlockSize == 4096
ObjectHeaderSize == 24
MsToUs == 1000

OK == "OK"
ERROR_END_OF_STREAM == "ERROR_END_OF_STREAM"
ERROR_UNSUPPORTED == "ERROR_UNSUPPORTED"
ERROR_IO == "ERROR_IO"
ERROR_MALFORMED == "ERROR_MALFORMED"
BAD_VALUE == "BAD_VALUE"

(***************************************************************************)
(* Media buffers.  A MediaBuffer object has an identity (id), a backing    *)
(* allocation (alloc; a clone shares its original's), the allocated size,  *)
(* a logical range and its meta data (kKeyTime, kKeyIsSyncFrame).  The     *)
(* bytes of an allocation live in mem, as the list of memcpy calls made    *)
(* into it.                                                                *)
(***************************************************************************)
NoBuffer == [id |-> 0, alloc |-> 0, size |-> 0, rangeOffset |-> 0,
             rangeLength |-> 0, time |-> 0, sync |-> FALSE]

\* A byte of a new allocation that no memcpy wrote.
Uninit == 0 - 1

RECURSIVE ApplyWrites(_, _)
\* The byte at position pos after the memcpy calls ws, in order.
ApplyWrites(ws, pos) ==
    IF ws = <<>> THEN Uninit
    ELSE LET w == ws[Len(ws)] IN
         IF pos >= w.off /\ pos < w.off + Len(w.data)
         THEN w.data[pos - w.off + 1]
         ELSE ApplyWrites(SubSeq(ws, 1, Len(ws) - 1), pos)

\* The bytes of a buffer's logical range, as the consumer sees them.
Content(m, b) ==
    [j \in 0..(b.rangeLength - 1) |-> ApplyWrites(m[b.alloc], b.rangeOffset + j)]

(***************************************************************************)
(* The container: what the byte source holds and what the parser reports.  *)
(***************************************************************************)
VideoPlain == [streamNumber |-> 1, encrypted |-> FALSE]
VideoEncrypted == [streamNumber |-> 2, encrypted |-> TRUE]
AudioStream == [streamNumber |-> 3, encrypted |-> FALSE]
OtherObject == [isIndex |-> FALSE, size |-> ObjectHeaderSize, bodyReadable |-> TRUE]
IndexObject == [isIndex |-> TRUE, size |-> ObjectHeaderSize + 6, bodyReadable |-> TRUE]

\* A payload shape: a fragment of size bytes at offset off of an object of len bytes.
Shape(len, off, size) == [len |-> len, off |-> off, size |-> size]

\* The payload shapes of objects of up to maxObj bytes: every fragment that
\* lies inside its object.
Shapes(maxObj) ==
    { sh \in [len : 1..maxObj, off : 0..(maxObj - 1), size : 1..maxObj] :
        sh.off + sh.size <= sh.len }

\* entries: the <<stream, shape>> pairs the payload entries of the data packets
\* are drawn from; faults: the ways a packet read may fail; indexEntries: the
\* packets the simple index object has an entry for.
Container(nPackets, rest, seekable, trailing, audio, video, entries, faults, maxPay) ==
    [headerObjectSize |-> HeaderSize,
     dataObjectSize |-> ASF_DATA_OBJECT_HEADER_SIZE + nPackets * PacketSize + rest,
     packetSize |-> PacketSize,
     seekable |-> seekable,
     trailing |-> trailing,
     audio |-> audio,
     video |-> video,
     entries |-> entries,
     faults |-> faults,
     maxPayloads |-> maxPay,
     indexEntries |-> nPackets,
     fault |-> "none"]

\* Containers of Spec: two video streams, with or without an audio stream, an
\* index that is found, absent, or not looked for; whole objects on both video
\* streams, two-fragment objects on the first.  The last one has an index
\* with entries for more packets than its data object holds.
MainContainers ==
    { Container(NumPackets, 1, TRUE, <<OtherObject, IndexObject>>, <<>>,
                <<VideoPlain, VideoEncrypted>>,
                {<<1, Shape(1, 0, 1)>>, <<2, Shape(1, 0, 1)>>,
                 <<1, Shape(2, 0, 1)>>, <<1, Shape(2, 1, 1)>>}, {"malformed"}, 1),
      Container(NumPackets, 0, TRUE, <<OtherObject>>, <<AudioStream>>,
                <<VideoPlain, VideoEncrypted>>,
                {<<1, Shape(1, 0, 1)>>, <<3, Shape(1, 0, 1)>>}, {"malformed"}, 1),
      Container(NumPackets, 0, FALSE, <<IndexObject>>, <<>>,
                <<VideoPlain, VideoEncrypted>>,
                {<<1, Shape(1, 0, 1)>>, <<2, Shape(1, 0, 1)>>}, {"short"}, 1),
      [Container(NumPackets, 1, TRUE, <<IndexObject>>, <<>>,
                 <<VideoPlain, VideoEncrypted>>, {<<1, Shape(1, 0, 1)>>}, {}, 1)
          EXCEPT !.indexEntries = NumPackets + 7] }

\* Containers of SpecFrag: one video stream, encrypted or not, objects of up to
\* MaxObjFrag bytes in fragments, two payload entries per packet.
FragContainers ==
    { Container(FragPackets, 1, FALSE, <<>>, <<>>, <<v>>,
                {1} \X Shapes(MaxObjFrag), {"short", "malformed"}, 2) :
        v \in {VideoPlain, [VideoEncrypted EXCEPT !.streamNumber = 1]} }

\* Containers of SpecConc: an index, a plain and an encrypted video stream,
\* whole objects on both, first fragments on the first and two-fragment
\* objects on the second.
ConcContainers ==
    { Container(ConcPackets, 0, TRUE, <<IndexObject>>, <<>>,
                <<VideoPlain, VideoEncrypted>>,
                {<<1, Shape(1, 0, 1)>>, <<2, Shape(1, 0, 1)>>, <<1, Shape(2, 0, 1)>>,
                 <<2, Shape(2, 0, 1)>>, <<2, Shape(2, 1, 1)>>}, {}, 1) }

\* Containers of SpecSkip: an audio stream, which gets no track, a plain and
\* an encrypted video stream; whole objects on all three and first fragments
\* on the encrypted one, two payload entries per packet.
SkipContainers ==
    { Container(SkipPackets, 0, FALSE, <<>>, <<AudioStream>>,
                <<VideoPlain, VideoEncrypted>>,
                {<<1, Shape(1, 0, 1)>>, <<2, Shape(1, 0, 1)>>, <<3, Shape(1, 0, 1)>>,
                 <<2, Shape(2, 0, 1)>>}, {}, 2) }

\* Containers of SpecCopy: one plain video stream, one payload entry per
\* packet; whole objects of one byte, and the fragments of an object that
\* fits one block and of an object that needs two.  Every fragment lies
\* inside its object.
CopyContainers ==
    { Container(CopyPackets, 0, FALSE, <<>>, <<>>, <<VideoPlain>>,
                {1} \X { Shape(1, 0, 1), Shape(2, 0, 1), Shape(2, 1, 1),
                         Shape(BlockSize + 2, 0, 1),
                         Shape(BlockSize + 2, BlockSize, 1),
                         Shape(BlockSize + 2, BlockSize + 1, 1) }, {}, 1) }

\* Containers of SpecLive: two video streams with whole objects, and an index
\* with entries for two packets more than the data object holds.
LiveContainers ==
    { [Container(LivePackets, 0, TRUE, <<IndexObject>>, <<>>,
                 <<VideoPlain, VideoEncrypted>>,
                 {<<1, Shape(1, 0, 1)>>, <<2, Shape(1, 0, 1)>>}, {}, 1)
         EXCEPT !.indexEntries = LivePackets + 2] }

\* The objects after the data object in SpecScan: other objects that declare
\* their own size, no size or a negative size, and index objects whose body
\* can or cannot be read in full.
ScanObjects ==
    { [OtherObject EXCEPT !.size = sz] :
        sz \in {0 - ObjectHeaderSize, 0, ObjectHeaderSize} }
    \cup { IndexObject, [IndexObject EXCEPT !.bodyReadable = FALSE] }

\* Containers of SpecScan: up to MaxTrailing objects after the data object.
\* The first one declares no negative size, so that the scan never reads an
\* object header out of the bytes of the data object.
ScanContainers ==
    { Container(1, 0, TRUE, tr, <<>>, <<VideoPlain>>, {<<1, Shape(1, 0, 1)>>}, {}, 1) :
        tr \in { t \in UNION { [1..n -> ScanObjects] : n \in 0..MaxTrailing } :
                   t # <<>> => t[1].size >= 0 } }

VARIABLES
    container,                  \* the input: byte source and parser reports
    file,                       \* packet number -> content revealed so far
    initPc,                     \* position of initialize()
    scanOffset,                 \* initialize(): offset of the index scan
    indexLoaded,                \* the parser holds a simple index
    mInitialized,
    tracks,                     \* the list mFirstTrack .. mLastTrack
    mDataPacketBeginOffset,
    mDataPacketEndOffset,
    mDataPacketCurrentOffset,
    mDataPacketSize,
    mem,                        \* allocation -> memcpy calls made into it
    nextId,                     \* next MediaBuffer identity
    pc,                         \* the caller: "idle" or inside read_l
    cur,                        \* the call in progress
    ret,                        \* what the last call returned
    hist,                       \* history of the behaviour (observation only)
    thr,                        \* SpecConc: the caller threads, one per track
    mReadLock                   \* SpecConc: the thread holding mReadLock, or 0

vars == <<container, file, initPc, scanOffset, indexLoaded, mInitialized, tracks,
          mDataPacketBeginOffset, mDataPacketEndOffset, mDataPacketCurrentOffset,
          mDataPacketSize, mem, nextId, pc, cur, ret, hist, thr, mReadLock>>

concVars == <<thr, mReadLock>>
regionVars == <<mDataPacketBeginOffset, mDataPacketEndOffset, mDataPacketSize>>
initVars == <<initPc, scanOffset, indexLoaded, mInitialized>>

\* Whole packets the data region of container c holds.
RegionPackets(c) ==
    (c.dataObjectSize - ASF_DATA_OBJECT_HEADER_SIZE) \div c.packetSize

\* The options of a read: none, options without a seek request, a seek request.
NoOptions == [present |-> FALSE, seekTo |-> FALSE, timeUs |-> 0, mode |-> "none"]
NonSeekOptions == [present |-> TRUE, seekTo |-> FALSE, timeUs |-> 0, mode |-> "none"]
SeekTo(t, m) == [present |-> TRUE, seekTo |-> TRUE, timeUs |-> t, mode |-> m]

\* No seek was executed yet.
NoSeek == 0 - 1

Unread == [kind |-> "unread", payloads |-> <<>>]

\* seek: what seek_l did with the options; flushed: the buffers its flush
\* released.
NoCall == [track |-> 0, options |-> NoOptions, seek |-> "none", flushed |-> 0]
NoReturn == [op |-> "none", track |-> 0, err |-> OK, buffer |-> NoBuffer, n |-> 0]
Pending == [NoReturn EXCEPT !.op = "pending"]
\* calls: reads that carried options; logical: the options of the latest read
\* that carried a seek request; achievedUs: the time the latest executed seek
\* achieved and executedUs: the time it asked for, NoSeek before any; demuxed:
\* packets demultiplexed since then; lastRead: what the latest readPacket of
\* the latest read call met.
NoHistory == [calls |-> 0, logical |-> NoOptions, achievedUs |-> NoSeek,
              executedUs |-> NoSeek, demuxed |-> 0,
              lastRead |-> "none"]

\* The caller threads of SpecConc; thread th reads the track at position th.
Threads == {1, 2}

\* options: the options of the call; flush: the track seek_l is flushing;
\* payloads: the payload entries readPacket has still to process; err, buffer:
\* what the latest call returned; targetUs: the time the seek achieved.
\* Observation of the calls of a counted thread: budget, (end - cursor) /
\* packetSize + 1 when the pull loop of its call began less the calls of
\* readPacket it made since; disturbed, another thread moved the cursor by a
\* seek since.
IdleThread == [pc |-> "idle", options |-> NoOptions, flush |-> 0, payloads |-> <<>>,
               err |-> OK, buffer |-> NoBuffer, targetUs |-> 0,
               counted |-> FALSE, budget |-> 0, disturbed |-> FALSE]
CountedThread == [IdleThread EXCEPT !.counted = TRUE]

\* The state the constructor leaves (lines 79-94).
InitOf(c, t) ==
    /\ container = c
    /\ file = [k \in 0..(RegionPackets(c) - 1) |-> Unread]
    /\ initPc = "start"
    /\ scanOffset = 0
    /\ indexLoaded = FALSE
    /\ mInitialized = FALSE
    /\ tracks = <<>>
    /\ mDataPacketBeginOffset = 0
    /\ mDataPacketEndOffset = 0
    /\ mDataPacketCurrentOffset = 0
    /\ mDataPacketSize = 0
    /\ mem = <<>>
    /\ nextId = 1
    /\ pc = "idle"
    /\ cur = NoCall
    /\ ret = NoReturn
    /\ hist = NoHistory
    /\ thr = [th \in Threads |-> t]
    /\ mReadLock = 0

InitWith(c) == InitOf(c, IdleThread)

Init == \E c \in MainContainers : InitWith(c)
InitFrag == \E c \in FragContainers : InitWith(c)
InitConc == \E c \in ConcContainers : InitWith(c)
InitScan == \E c \in ScanContainers : InitWith(c)
InitSkip == \E c \in SkipContainers : InitWith(c)
InitLive == \E c \in LiveContainers : InitOf(c, CountedThread)
InitCopy == \E c \in CopyContainers : InitWith(c)

(***************************************************************************)
(* initialize() (lines 180-283), in three steps: the header and the data   *)
(* object header, the scan for the simple index object (two steps per loop *)
(* iteration), and the track set-up.                                       *)
(***************************************************************************)
InitializeFails(e) ==
    /\ initPc' = "failed"
    /\ ret' = [NoReturn EXCEPT !.op = "initialize", !.err = e]
    /\ UNCHANGED <<concVars, container, file, scanOffset, indexLoaded, mInitialized, tracks,
                   regionVars, mDataPacketCurrentOffset, mem, nextId, pc, cur, hist>>

\* Lines 180-236: read and parse the header object and the data object header,
\* locate the packet region, and enter the index scan when the file is seekable.
Initialize ==
    /\ initPc = "start"
    /\ ~mInitialized
    /\ IF container.fault = "io" THEN InitializeFails(ERROR_IO)
       ELSE IF container.fault = "malformed" THEN InitializeFails(ERROR_MALFORMED)
       ELSE /\ mDataPacketBeginOffset' =
                   container.headerObjectSize + ASF_DATA_OBJECT_HEADER_SIZE
            /\ mDataPacketEndOffset' =
                   container.headerObjectSize + container.dataObjectSize
            /\ mDataPacketCurrentOffset' =
                   container.headerObjectSize + ASF_DATA_OBJECT_HEADER_SIZE
            /\ mDataPacketSize' = container.packetSize
            /\ scanOffset' = container.headerObjectSize + container.dataObjectSize
            /\ initPc' = IF container.seekable THEN "scan" ELSE "finish"
            /\ UNCHANGED <<concVars, container, file, indexLoaded, mInitialized, tracks,
                           mem, nextId, pc, cur, ret, hist>>

\* The bytes a trailing object takes in the file: its declared size, or its
\* header alone when it declares no size or a negative one.
PhysicalSize(o) == IF o.size > 0 THEN o.size ELSE ObjectHeaderSize

RECURSIVE SumSizes(_, _)
\* The bytes the first n trailing objects take in the file.
SumSizes(tr, n) == IF n = 0 THEN 0 ELSE SumSizes(tr, n - 1) + PhysicalSize(tr[n])

\* readAt(offset, objectHeader, 24): the trailing object whose header starts at
\* offset, 0 when the read returns fewer than 24 bytes.
ObjectAt(c, offset) ==
    LET hits == { j \in 1..Len(c.trailing) :
                    c.headerObjectSize + c.dataObjectSize
                        + SumSizes(c.trailing, j - 1) = offset }
    IN IF hits = {} THEN 0 ELSE CHOOSE j \in hits : \A i \in hits : j <= i

\* Lines 243-246: an iteration of the index scan reads the object header at
\* the offset, and the scan ends when the read falls short.
IndexScanRead ==
    /\ initPc = "scan"
    /\ initPc' = IF ObjectAt(container, scanOffset) = 0 THEN "finish" ELSE "header"
    /\ UNCHANGED <<concVars, container, file, scanOffset, indexLoaded, mInitialized,
                   tracks, regionVars, mDataPacketCurrentOffset, mem, nextId, pc, cur,
                   ret, hist>>

\* Lines 248-265: the rest of the iteration, with the header read.
IndexScanStep ==
    /\ initPc = "header"
    /\ LET j == ObjectAt(container, scanOffset) IN
       IF ~container.trailing[j].isIndex
       THEN /\ scanOffset' = scanOffset + container.trailing[j].size
            /\ initPc' = "scan"
            /\ UNCHANGED indexLoaded
       ELSE /\ indexLoaded' = container.trailing[j].bodyReadable
            /\ initPc' = "finish"
            /\ UNCHANGED scanOffset
    /\ UNCHANGED <<concVars, container, file, mInitialized, tracks, regionVars,
                   mDataPacketCurrentOffset, mem, nextId, pc, cur, ret, hist>>

\* Line 375: the audio descriptors setupTracks walks.
AudioInfo(c) == <<>>

\* Line 376: the video descriptors setupTracks walks.
VideoInfo(c) == c.video

\* Lines 380-394, 397-398, 415-416: a new Track.  lock is the thread holding
\* the track's lock, or 0.  run, runOut, pushed, popped and interleaved
\* observe the track; the program does not read them.
NewTrack(d) ==
    [streamNumber |-> d.streamNumber,
     encrypted |-> d.encrypted,
     skipTrack |-> TRUE,
     seekCompleted |-> FALSE,
     bufferQueue |-> <<>>,
     bufferActive |-> NoBuffer,
     lock |-> 0,
     run |-> <<>>,
     runOut |-> <<>>,
     pushed |-> <<>>,
     popped |-> <<>>,
     interleaved |-> FALSE]

\* Lines 372-442: one track per descriptor, audio first, in list order.
SetupTracks(c) ==
    LET ds == AudioInfo(c) \o VideoInfo(c)
    IN [i \in 1..Len(ds) |-> NewTrack(ds[i])]

\* Lines 269-282: refuse content with neither audio nor video, else build
\* the tracks.
InitializeEnd ==
    /\ initPc = "finish"
    /\ IF container.video = <<>> /\ container.audio = <<>>
       THEN InitializeFails(ERROR_UNSUPPORTED)
       ELSE /\ tracks' = SetupTracks(container)
            /\ mInitialized' = TRUE
            /\ initPc' = "done"
            /\ ret' = [NoReturn EXCEPT !.op = "initialize"]
            /\ UNCHANGED <<concVars, container, file, scanOffset, indexLoaded, regionVars,
                           mDataPacketCurrentOffset, mem, nextId, pc, cur, hist>>

\* Lines 113-128: countTracks().
CountTracks ==
    /\ initPc \in {"done", "failed"}
    /\ pc = "idle"
    /\ ret' = [NoReturn EXCEPT !.op = "countTracks",
                               !.n = IF mInitialized THEN Len(tracks) ELSE 0]
    /\ UNCHANGED <<concVars, container, file, initVars, tracks, regionVars,
                   mDataPacketCurrentOffset, mem, nextId, pc, cur, hist>>

\* Lines 660-671: the position (from 1) of the track with 0-based index,
\* 0 for NULL.
getTrackByTrackIndex(ts, index) ==
    IF index < Len(ts) THEN (IF index > 0 THEN index + 1 ELSE IF ts = <<>> THEN 0 ELSE 1)
    ELSE 0

\* Lines 673-682: the position of the first track with this stream number,
\* 0 for NULL.
getTrackByStreamNumber(ts, stream) ==
    LET hits == { i \in 1..Len(ts) : ts[i].streamNumber = stream }
    IN IF hits = {} THEN 0 ELSE CHOOSE i \in hits : \A j \in hits : i <= j

\* Lines 145-159: getTrack(index) activates the track.
GetTrack(index) ==
    /\ mInitialized
    /\ pc = "idle"
    /\ LET t == getTrackByTrackIndex(tracks, index) IN
       tracks' = IF t = 0 THEN tracks
                 ELSE [tracks EXCEPT ![t].skipTrack = FALSE]
    /\ UNCHANGED <<concVars, container, file, initVars, regionVars,
                   mDataPacketCurrentOffset, mem, nextId, pc, cur, ret, hist>>

(***************************************************************************)
(* The data packets.  Packet k carries presentation time k (milliseconds)  *)
(* in all its payload entries, so payload times never decrease with the    *)
(* packet number, and every payload byte is tagged with its origin.        *)
(***************************************************************************)
PacketMs(k) == k

\* The payload entry the parser reports at place j of packet k.
Payload(k, j, stream, sh) ==
    [streamNumber |-> stream,
     mediaObjectLength |-> sh.len,
     payloadSize |-> sh.size,
     offsetIntoMediaObject |-> sh.off,
     presentationTime |-> PacketMs(k),
     keyframe |-> (sh.off = 0),
     payloadData |-> [i \in 1..sh.size |-> 100 * (k + 1) + 10 * j + i]]

\* What packet k of container c may hold: a packet the byte source cannot
\* deliver in full, one the parser rejects, or 1..maxPayloads payload entries.
PacketChoices(c, k) ==
    { [kind |-> f, payloads |-> <<>>] : f \in c.faults }
    \cup
    UNION { { [kind |-> "ok",
               payloads |-> [j \in 1..n |-> Payload(k, j, d[j][1], d[j][2])]] :
              d \in [1..n -> c.entries] } :
            n \in 1..c.maxPayloads }

\* The packet number the read cursor stands at.
PacketAt(begin, size, offset) == (offset - begin) \div size

(***************************************************************************)
(* readPacket(): the payload loop (lines 570-654).                         *)
(***************************************************************************)
\* Line 580: the allocation size for an object of n bytes.
RoundUp(n) == ((n + BlockSize - 1) \div BlockSize) * BlockSize

\* Lines 580-599: the buffer of a whole object or of a first fragment.
NewBuffer(id, p) ==
    [id |-> id, alloc |-> id, size |-> RoundUp(p.mediaObjectLength),
     rangeOffset |-> 0, rangeLength |-> p.mediaObjectLength,
     time |-> p.presentationTime * MsToUs, sync |-> p.keyframe]

\* MediaBuffer::clone() as used in lines 610 and 647: a new MediaBuffer over
\* the same data, with the same range and a copy of the meta data.
Clone(b, id) == [b EXCEPT !.id = id]

\* set_range that keeps the range the buffer was created with.
SetRangeKept(b, off, len) == b

\* MediaBuffer::set_range() as used in lines 592, 611, 639 and 648.
SetRange(b, off, len) == [b EXCEPT !.rangeOffset = off, !.rangeLength = len]

\* memcpy that ignores the offset into the media object.
MemcpyAtStart(m, a, off, data) ==
    IF a \in DOMAIN m
    THEN [m EXCEPT ![a] = Append(@, [off |-> 0, data |-> data])]
    ELSE m @@ (a :> <<[off |-> 0, data |-> data]>>)

\* Lines 588-590 and 623-626: memcpy of the payload into allocation a at off.
Memcpy(m, a, off, data) ==
    IF a \in DOMAIN m
    THEN [m EXCEPT ![a] = Append(@, [off |-> off, data |-> data])]
    ELSE m @@ (a :> <<[off |-> off, data |-> data]>>)

IsWhole(p) == p.mediaObjectLength = p.payloadSize
IsFirstFragment(p) == p.offsetIntoMediaObject = 0 /\ ~IsWhole(p)

\* Observation: the entries a track received since its latest first fragment.
Observe(tr, p) ==
    IF IsFirstFragment(p) THEN [tr EXCEPT !.run = <<p>>, !.runOut = <<>>]
    ELSE IF tr.run # <<>> THEN [tr EXCEPT !.run = Append(@, p)]
    ELSE tr

\* Lines 604, 612, 635, 640, 649: bufferQueue.push(b).
Push(tr, b) ==
    [tr EXCEPT !.bufferQueue = Append(@, b),
               !.pushed = Append(@, b),
               !.runOut = IF tr.run # <<>> THEN Append(@, b) ELSE @]

\* Lines 577-614: a whole object, or the first payload of a fragmented one.
FirstOrWhole(st, t, p) ==
    LET tr == Observe(st.tracks[t], p)
        buffer == NewBuffer(st.nextId, p)
        m == Memcpy(st.mem, buffer.alloc, 0, p.payloadData)
    IN IF p.mediaObjectLength = p.payloadSize
       THEN [tracks |-> [st.tracks EXCEPT ![t] =
                           Push([tr EXCEPT !.interleaved =
                                     @ \/ tr.bufferActive # NoBuffer], buffer)],
             mem |-> m, nextId |-> st.nextId + 1]
       ELSE IF tr.encrypted
       THEN [tracks |-> [st.tracks EXCEPT ![t] =
                           Push([tr EXCEPT !.bufferActive = buffer],
                                SetRange(Clone(buffer, st.nextId + 1), 0, p.payloadSize))],
             mem |-> m, nextId |-> st.nextId + 2]
       ELSE [tracks |-> [st.tracks EXCEPT ![t] = [tr EXCEPT !.bufferActive = buffer]],
             mem |-> m, nextId |-> st.nextId + 1]

\* Lines 615-652: a middle or the last payload of a fragmented object.
MiddleOrLast(st, t, p) ==
    LET tr == Observe(st.tracks[t], p) IN
    IF tr.bufferActive = NoBuffer
    THEN [st EXCEPT !.tracks[t] = tr]
    ELSE LET m == Memcpy(st.mem, tr.bufferActive.alloc,
                         p.offsetIntoMediaObject, p.payloadData) IN
         IF p.offsetIntoMediaObject + p.payloadSize = p.mediaObjectLength
         THEN IF ~tr.encrypted
              THEN [tracks |-> [st.tracks EXCEPT ![t] =
                                  [Push(tr, tr.bufferActive)
                                      EXCEPT !.bufferActive = NoBuffer]],
                    mem |-> m, nextId |-> st.nextId]
              ELSE [tracks |-> [st.tracks EXCEPT ![t] =
                                  [Push(tr, SetRange(tr.bufferActive,
                                                     p.offsetIntoMediaObject,
                                                     p.payloadSize))
                                      EXCEPT !.bufferActive = NoBuffer]],
                    mem |-> m, nextId |-> st.nextId]
         ELSE IF tr.encrypted
         THEN [tracks |-> [st.tracks EXCEPT ![t] =
                             Push(tr, SetRange(Clone(tr.bufferActive, st.nextId),
                                               p.offsetIntoMediaObject,
                                               p.payloadSize))],
               mem |-> m, nextId |-> st.nextId + 1]
         ELSE [tracks |-> [st.tracks EXCEPT ![t] = tr], mem |-> m, nextId |-> st.nextId]

\* A payload loop that does not test skipTrack.
ProcessPayloadOfAnyTrack(st, p) ==
    LET t == getTrackByStreamNumber(st.tracks, p.streamNumber) IN
    IF t = 0 THEN st
    ELSE IF p.mediaObjectLength = p.payloadSize \/ p.offsetIntoMediaObject = 0
    THEN FirstOrWhole(st, t, p)
    ELSE MiddleOrLast(st, t, p)

\* Lines 572-653: one payload entry.
ProcessPayload(st, p) ==
    LET t == getTrackByStreamNumber(st.tracks, p.streamNumber) IN
    IF t = 0 \/ st.tracks[t].skipTrack THEN st
    ELSE IF p.mediaObjectLength = p.payloadSize \/ p.offsetIntoMediaObject = 0
    THEN FirstOrWhole(st, t, p)
    ELSE MiddleOrLast(st, t, p)

RECURSIVE ProcessPayloads(_, _)
\* Lines 570-654: the payload entries of one packet, in the parser's order.
ProcessPayloads(st, ps) ==
    IF ps = <<>> THEN st
    ELSE ProcessPayloads(ProcessPayload(st, Head(ps)), Tail(ps))

(***************************************************************************)
(* read(): seek_l (lines 444-530), then the pull loop read_l (532-547),    *)
(* one step per loop iteration, with readPacket (549-658) inside it.       *)
(***************************************************************************)
\* The seek requests the callers make.
SeekOptions ==
    { SeekTo(0, "SEEK_CLOSEST_SYNC"), SeekTo(1500, "SEEK_PREVIOUS_SYNC"),
      SeekTo(1500, "SEEK_NEXT_SYNC"), SeekTo(9000, "SEEK_PREVIOUS_SYNC") }

\* AsfStreamParser::seek as called in lines 492-493: the packet the simple
\* index gives for a time (in 100 ns), the entry at or before it, or the next
\* one for nextSync; it fails without an index and past its last entry.  The
\* time achieved is the time of the target packet.
ParserSeek(c, loaded, time, nextSync) ==
    LET unit == MsToUs * SCALE_100_NANOSEC_TO_USEC
        down == time \div unit
        pn == IF nextSync /\ down * unit # time THEN down + 1 ELSE down
    IN IF ~loaded \/ pn >= c.indexEntries
       THEN [ok |-> FALSE, packetNumber |-> 0, targetTime |-> 0]
       ELSE [ok |-> TRUE, packetNumber |-> pn, targetTime |-> PacketMs(pn) * unit]

\* A flush that marks the track the seek was made on as well.
FlushTrackMarksAll(tr, origin) ==
    [tr EXCEPT !.bufferActive = NoBuffer,
               !.bufferQueue = <<>>,
               !.seekCompleted = TRUE,
               !.run = <<>>, !.runOut = <<>>, !.pushed = <<>>, !.popped = <<>>,
               !.interleaved = FALSE]

\* Lines 508-517: the buffers the flush of the tracks ts releases.
Released(ts) ==
    Cardinality({ i \in 1..Len(ts) : ts[i].bufferActive # NoBuffer })
    + Cardinality(UNION { { <<i, k>> : k \in 1..Len(ts[i].bufferQueue) } :
                            i \in 1..Len(ts) })

\* Lines 505-527: what the seek does to one track; origin is the track the
\* seek was made on.
FlushTrack(tr, origin) ==
    [tr EXCEPT !.bufferActive = NoBuffer,
               !.bufferQueue = <<>>,
               !.seekCompleted = IF origin THEN @ ELSE TRUE,
               !.run = <<>>, !.runOut = <<>>, !.pushed = <<>>, !.popped = <<>>,
               !.interleaved = FALSE]

\* A failed translation reported as success.
SeekFailureAsOk == OK

\* Lines 492-496: what seek_l returns when the translation fails.
SeekFailure == ERROR_END_OF_STREAM

\* Line 501: the cursor for a packet number.
SeekOffset(begin, packetNumber, size) == begin + packetNumber * size

\* Lines 463-486: the seek time and mode of the options, and nextSync.
NextSync(o) == o.mode = "SEEK_NEXT_SYNC"

\* Lines 161-178 and 444-530: read(trackIndex, buffer, options) up to the
\* call of read_l.  Only an ASFSource calls it, and getTrack made that for an
\* existing track it activated.
ReadCall(index, o) ==
    LET t == getTrackByTrackIndex(tracks, index) IN
    /\ mInitialized
    /\ pc = "idle"
    /\ t # 0
    /\ ~tracks[t].skipTrack
    /\ o.present => hist.calls < MaxSeeks
    /\ LET call == [track |-> t, options |-> o, seek |-> "none", flushed |-> 0]
           r == ParserSeek(container, indexLoaded,
                           o.timeUs * SCALE_100_NANOSEC_TO_USEC, NextSync(o))
           h == [hist EXCEPT !.calls = IF o.present THEN @ + 1 ELSE @,
                             !.logical = IF o.seekTo THEN o ELSE @,
                             !.lastRead = "none"]
       IN
       IF ~o.present
       THEN /\ pc' = "read_l"
            /\ cur' = call
            /\ ret' = Pending
            /\ hist' = h
            /\ UNCHANGED <<tracks, mDataPacketCurrentOffset>>
       ELSE IF tracks[t].seekCompleted
       THEN /\ tracks' = [tracks EXCEPT ![t].seekCompleted = FALSE]
            /\ pc' = "read_l"
            /\ cur' = [call EXCEPT !.seek = "skipped"]
            /\ hist' = h
            /\ ret' = Pending
            /\ UNCHANGED mDataPacketCurrentOffset
       ELSE IF ~o.seekTo
       THEN /\ pc' = "read_l"
            /\ cur' = [call EXCEPT !.seek = "noseek"]
            /\ hist' = h
            /\ ret' = Pending
            /\ UNCHANGED <<tracks, mDataPacketCurrentOffset>>
       ELSE IF ~r.ok
       THEN /\ pc' = "idle"
            /\ cur' = [call EXCEPT !.seek = "failed"]
            /\ ret' = [NoReturn EXCEPT !.op = "read", !.track = t, !.err = SeekFailure]
            /\ hist' = h
            /\ UNCHANGED <<tracks, mDataPacketCurrentOffset>>
       ELSE /\ mDataPacketCurrentOffset' =
                   SeekOffset(mDataPacketBeginOffset, r.packetNumber, mDataPacketSize)
            /\ tracks' = [i \in 1..Len(tracks) |-> FlushTrack(tracks[i], i = t)]
            /\ pc' = "read_l"
            /\ cur' = [call EXCEPT !.seek = "executed", !.flushed = Released(tracks)]
            /\ hist' = [h EXCEPT !.achievedUs = r.targetTime \div SCALE_100_NANOSEC_TO_USEC,
                                 !.executedUs = o.timeUs,
                                 !.demuxed = 0]
            /\ ret' = Pending
    /\ UNCHANGED <<concVars, container, file, initVars, regionVars, mem, nextId>>

\* Lines 536-540: the queue has an entry; pop it and return.
ReadLPop ==
    /\ pc = "read_l"
    /\ tracks[cur.track].bufferQueue # <<>>
    /\ LET b == Head(tracks[cur.track].bufferQueue) IN
       /\ tracks' = [tracks EXCEPT ![cur.track].bufferQueue = Tail(@),
                                   ![cur.track].popped = Append(@, b)]
       /\ ret' = [NoReturn EXCEPT !.op = "read", !.track = cur.track, !.buffer = b]
    /\ pc' = "idle"
    /\ UNCHANGED <<concVars, container, file, initVars, regionVars, mDataPacketCurrentOffset,
                   mem, nextId, cur, hist>>

\* An end test that also refuses the packet that ends exactly at the end.
CrossesEndEarly(offset, size, end) == offset + size >= end

\* Line 551: the next packet would cross the end of the packet region.
CrossesEnd(offset, size, end) == offset + size > end

\* Lines 541-546 and 551-554: the queue is empty and the packet region is
\* exhausted; read_l returns end of stream.
ReadLEndOfRegion ==
    /\ pc = "read_l"
    /\ tracks[cur.track].bufferQueue = <<>>
    /\ CrossesEnd(mDataPacketCurrentOffset, mDataPacketSize, mDataPacketEndOffset)
    /\ pc' = "idle"
    /\ ret' = [NoReturn EXCEPT !.op = "read", !.track = cur.track,
                               !.err = ERROR_END_OF_STREAM]
    /\ hist' = [hist EXCEPT !.lastRead = "end"]
    /\ UNCHANGED <<concVars, container, file, initVars, tracks, regionVars,
                   mDataPacketCurrentOffset, mem, nextId, cur>>

\* A cursor that skips the packet after the one read.
AdvanceTwice(offset, size) == offset + 2 * size

\* A cursor that stays on the packet read.
AdvanceNot(offset, size) == offset

\* Line 562: the cursor after a packet was read in full.
Advance(offset, size) == offset + size

\* Lines 541-546 and 556-658: the queue is empty; readPacket reads the packet
\* at the cursor, and read_l returns its error or goes round again.
ReadLPacket ==
    /\ pc = "read_l"
    /\ tracks[cur.track].bufferQueue = <<>>
    /\ ~CrossesEnd(mDataPacketCurrentOffset, mDataPacketSize, mDataPacketEndOffset)
    /\ LET k == PacketAt(mDataPacketBeginOffset, mDataPacketSize,
                         mDataPacketCurrentOffset)
       IN \E pkt \in (IF file[k] = Unread THEN PacketChoices(container, k) ELSE {file[k]}) :
          /\ file' = [file EXCEPT ![k] = pkt]
          /\ IF pkt.kind = "short"
             THEN /\ pc' = "idle"
                  /\ ret' = [NoReturn EXCEPT !.op = "read", !.track = cur.track,
                                             !.err = ERROR_END_OF_STREAM]
                  /\ hist' = [hist EXCEPT !.lastRead = "short"]
                  /\ UNCHANGED <<tracks, mDataPacketCurrentOffset, mem, nextId>>
             ELSE IF pkt.kind = "malformed" \/ pkt.payloads = <<>>
             THEN /\ mDataPacketCurrentOffset' =
                         Advance(mDataPacketCurrentOffset, mDataPacketSize)
                  /\ pc' = "idle"
                  /\ ret' = [NoReturn EXCEPT !.op = "read", !.track = cur.track,
                                             !.err = ERROR_END_OF_STREAM]
                  /\ hist' = [hist EXCEPT !.lastRead = "malformed"]
                  /\ UNCHANGED <<tracks, mem, nextId>>
             ELSE LET st == ProcessPayloads([tracks |-> tracks, mem |-> mem,
                                             nextId |-> nextId], pkt.payloads)
                  IN /\ mDataPacketCurrentOffset' =
                            Advance(mDataPacketCurrentOffset, mDataPacketSize)
                     /\ tracks' = st.tracks
                     /\ mem' = st.mem
                     /\ nextId' = st.nextId
                     /\ hist' = [hist EXCEPT !.demuxed = @ + 1, !.lastRead = "ok"]
                     /\ UNCHANGED <<pc, ret>>
    /\ UNCHANGED <<concVars, container, initVars, regionVars, cur>>

(***************************************************************************)
(* read() called from several threads (SpecConc): the same code, one step  *)
(* per lock operation and per critical section.  Thread th reads the track *)
(* at position th; its pc names the statement it is about to execute.      *)
(***************************************************************************)
seqVars == <<pc, cur, ret>>

\* An unlock that leaves the lock as it is.
UnlockKept(l, th) == {l}

\* Mutex::unlock() (lines 541 and the Autolock destructors) by thread th of
\* a lock whose holder is l: the holder releases it; an unlock by a thread
\* that does not hold the lock is undefined, and releases it or does not.
Unlock(l, th) == IF l = th THEN {0} ELSE {0, l}

\* The thread after its call returned err: the observation of the call ends.
Returned(t, err) == [t EXCEPT !.pc = "idle", !.err = err,
                              !.budget = 0, !.disturbed = FALSE]

\* a / b on int64_t: the quotient truncated towards zero, for b > 0.
Quotient(a, b) == IF a >= 0 THEN a \div b ELSE 0 - ((0 - a) \div b)

\* (end - cursor) / packetSize + 1: the calls of readPacket that reach the end
\* of the packet region from offset.
Budget(offset, size, end) == Quotient(end - offset, size) + 1

\* The thread as its pull loop begins with the cursor at offset.
Begun(t, offset, size, end) ==
    IF t.counted THEN [t EXCEPT !.budget = Budget(offset, size, end)] ELSE t

\* The thread after one more call of readPacket.
Spent(t) == IF t.counted /\ ~t.disturbed THEN [t EXCEPT !.budget = @ - 1] ELSE t

\* The thread after a seek of another thread moved the cursor.
Disturbed(t) ==
    IF t.counted /\ t.pc # "idle" THEN [t EXCEPT !.budget = 0, !.disturbed = TRUE] ELSE t

\* Lines 161-178: read(trackIndex, buffer, options) up to seek_l or read_l.
ConcCall(th, o) ==
    /\ mInitialized
    /\ thr[th].pc = "idle"
    /\ getTrackByTrackIndex(tracks, th - 1) = th
    /\ ~tracks[th].skipTrack
    /\ o.present => hist.calls < MaxSeeks
    /\ thr' = [thr EXCEPT ![th] =
                  Begun([IdleThread EXCEPT
                            !.pc = IF o.present THEN "seek_l" ELSE "read_l",
                            !.options = o, !.counted = thr[th].counted],
                        mDataPacketCurrentOffset, mDataPacketSize,
                        mDataPacketEndOffset)]
    /\ hist' = [hist EXCEPT !.calls = IF o.present THEN @ + 1 ELSE @]
    /\ UNCHANGED <<seqVars, mReadLock, container, file, initVars, tracks, regionVars,
                   mDataPacketCurrentOffset, mem, nextId>>

\* Line 445: seek_l takes mReadLock.
ConcSeekLock(th) ==
    /\ thr[th].pc = "seek_l"
    /\ mReadLock = 0
    /\ mReadLock' = th
    /\ thr' = [thr EXCEPT ![th].pc = "seek"]
    /\ UNCHANGED <<seqVars, container, file, initVars, tracks, regionVars,
                   mDataPacketCurrentOffset, mem, nextId, hist>>

\* Lines 457-502: the mark, the options, the translation and the cursor; the
\* returns of lines 460, 466 and 495 release mReadLock.
ConcSeek(th) ==
    /\ thr[th].pc = "seek"
    /\ LET o == thr[th].options
           r == ParserSeek(container, indexLoaded,
                           o.timeUs * SCALE_100_NANOSEC_TO_USEC, NextSync(o))
       IN
       IF tracks[th].seekCompleted
       THEN /\ tracks' = [tracks EXCEPT ![th].seekCompleted = FALSE]
            /\ mReadLock' = 0
            /\ thr' = [thr EXCEPT ![th].pc = "read_l"]
            /\ UNCHANGED mDataPacketCurrentOffset
       ELSE IF ~o.seekTo
       THEN /\ mReadLock' = 0
            /\ thr' = [thr EXCEPT ![th].pc = "read_l"]
            /\ UNCHANGED <<tracks, mDataPacketCurrentOffset>>
       ELSE IF ~r.ok
       THEN /\ mReadLock' = 0
            /\ thr' = [thr EXCEPT ![th] = Returned(@, SeekFailure)]
            /\ UNCHANGED <<tracks, mDataPacketCurrentOffset>>
       ELSE /\ mDataPacketCurrentOffset' =
                   SeekOffset(mDataPacketBeginOffset, r.packetNumber, mDataPacketSize)
            /\ thr' = [i \in Threads |->
                          IF i = th
                          THEN Begun([thr[i] EXCEPT
                                         !.pc = "flush_lock", !.flush = 1,
                                         !.targetUs =
                                             r.targetTime \div SCALE_100_NANOSEC_TO_USEC],
                                     mDataPacketCurrentOffset', mDataPacketSize,
                                     mDataPacketEndOffset)
                          ELSE Disturbed(thr[i])]
            /\ UNCHANGED <<tracks, mReadLock>>
    /\ UNCHANGED <<seqVars, container, file, initVars, regionVars, mem, nextId, hist>>

\* Lines 506-507: the flush loop takes the lock of the next track.
ConcFlushLock(th) ==
    /\ thr[th].pc = "flush_lock"
    /\ thr[th].flush <= Len(tracks)
    /\ tracks[thr[th].flush].lock = 0
    /\ tracks' = [tracks EXCEPT ![thr[th].flush].lock = th]
    /\ thr' = [thr EXCEPT ![th].pc = "flush"]
    /\ UNCHANGED <<seqVars, mReadLock, container, file, initVars, regionVars,
                   mDataPacketCurrentOffset, mem, nextId, hist>>

\* Lines 508-526: the flush of one track, and the release of its lock at the
\* end of the iteration.
ConcFlush(th) ==
    /\ thr[th].pc = "flush"
    /\ LET i == thr[th].flush IN
       \E l \in Unlock(tracks[i].lock, th) :
          tracks' = [tracks EXCEPT ![i] =
                        [FlushTrack(tracks[i], i = th) EXCEPT !.lock = l]]
    /\ thr' = [thr EXCEPT ![th].pc = "flush_lock", ![th].flush = @ + 1]
    /\ UNCHANGED <<seqVars, mReadLock, container, file, initVars, regionVars,
                   mDataPacketCurrentOffset, mem, nextId, hist>>

\* Line 529: seek_l returns OK and releases mReadLock.
ConcSeekReturn(th) ==
    /\ thr[th].pc = "flush_lock"
    /\ thr[th].flush > Len(tracks)
    /\ mReadLock' = 0
    /\ thr' = [thr EXCEPT ![th].pc = "read_l"]
    /\ hist' = [hist EXCEPT !.achievedUs = thr[th].targetUs,
                             !.executedUs = thr[th].options.timeUs]
    /\ UNCHANGED <<seqVars, container, file, initVars, tracks, regionVars,
                   mDataPacketCurrentOffset, mem, nextId>>

\* Line 535: read_l takes the lock of its track.
ConcReadLLock(th) ==
    /\ thr[th].pc = "read_l"
    /\ tracks[th].lock = 0
    /\ tracks' = [tracks EXCEPT ![th].lock = th]
    /\ thr' = [thr EXCEPT ![th].pc = "check"]
    /\ UNCHANGED <<seqVars, mReadLock, container, file, initVars, regionVars,
                   mDataPacketCurrentOffset, mem, nextId, hist>>

\* Lines 536-537 and 541: the queue has an entry, which is the buffer to
\* return; or it has none, and the lock is released before readPacket.
ConcCheck(th) ==
    /\ thr[th].pc = "check"
    /\ IF tracks[th].bufferQueue # <<>>
       THEN /\ thr' = [thr EXCEPT ![th].pc = "remove",
                                  ![th].buffer = Head(tracks[th].bufferQueue)]
            /\ UNCHANGED tracks
       ELSE /\ \E l \in Unlock(tracks[th].lock, th) :
                  tracks' = [tracks EXCEPT ![th].lock = l]
            /\ thr' = [thr EXCEPT ![th].pc = "readPacket"]
    /\ UNCHANGED <<seqVars, mReadLock, container, file, initVars, regionVars,
                   mDataPacketCurrentOffset, mem, nextId, hist>>

\* Lines 538-539: removeAt(0), and the return, which releases the lock.
ConcRemove(th) ==
    /\ thr[th].pc = "remove"
    /\ \E l \in Unlock(tracks[th].lock, th) :
          tracks' = [tracks EXCEPT
                        ![th].bufferQueue = IF @ = <<>> THEN @ ELSE Tail(@),
                        ![th].popped = Append(@, thr[th].buffer),
                        ![th].lock = l]
    /\ thr' = [thr EXCEPT ![th] = Returned(@, OK)]
    /\ UNCHANGED <<seqVars, mReadLock, container, file, initVars, regionVars,
                   mDataPacketCurrentOffset, mem, nextId, hist>>

\* Lines 550-568: readPacket takes mReadLock, reads the packet at the cursor
\* and has it parsed; its error returns release mReadLock.
ConcReadPacket(th) ==
    /\ thr[th].pc = "readPacket"
    /\ mReadLock = 0
    /\ IF CrossesEnd(mDataPacketCurrentOffset, mDataPacketSize, mDataPacketEndOffset)
       THEN /\ thr' = [thr EXCEPT ![th] = [Spent(@) EXCEPT !.pc = "unlock",
                                                           !.err = ERROR_END_OF_STREAM]]
            /\ UNCHANGED <<file, mDataPacketCurrentOffset, mReadLock>>
       ELSE LET k == PacketAt(mDataPacketBeginOffset, mDataPacketSize,
                              mDataPacketCurrentOffset)
            IN \E pkt \in (IF file[k] = Unread THEN PacketChoices(container, k)
                           ELSE {file[k]}) :
               /\ file' = [file EXCEPT ![k] = pkt]
               /\ IF pkt.kind = "short"
                  THEN /\ thr' = [thr EXCEPT ![th] =
                                     [Spent(@) EXCEPT !.pc = "unlock",
                                                      !.err = ERROR_END_OF_STREAM]]
                       /\ UNCHANGED <<mDataPacketCurrentOffset, mReadLock>>
                  ELSE IF pkt.kind = "malformed" \/ pkt.payloads = <<>>
                  THEN /\ mDataPacketCurrentOffset' =
                              Advance(mDataPacketCurrentOffset, mDataPacketSize)
                       /\ thr' = [thr EXCEPT ![th] =
                                     [Spent(@) EXCEPT !.pc = "unlock",
                                                      !.err = ERROR_END_OF_STREAM]]
                       /\ UNCHANGED mReadLock
                  ELSE /\ mDataPacketCurrentOffset' =
                              Advance(mDataPacketCurrentOffset, mDataPacketSize)
                       /\ mReadLock' = th
                       /\ thr' = [thr EXCEPT ![th] =
                                     [Spent(@) EXCEPT !.pc = "payloads",
                                                      !.payloads = pkt.payloads]]
    /\ UNCHANGED <<seqVars, container, initVars, tracks, regionVars, mem, nextId, hist>>

\* Lines 570-657: the next payload entry; a push waits for the lock of its
\* track.  After the last entry readPacket returns OK and releases mReadLock.
ConcPayload(th) ==
    /\ thr[th].pc = "payloads"
    /\ LET p == Head(thr[th].payloads)
           t == getTrackByStreamNumber(tracks, p.streamNumber)
           st == ProcessPayload([tracks |-> tracks, mem |-> mem, nextId |-> nextId], p)
           last == Tail(thr[th].payloads) = <<>>
       IN /\ (t # 0 /\ st.tracks[t].pushed # tracks[t].pushed) => tracks[t].lock = 0
          /\ tracks' = st.tracks
          /\ mem' = st.mem
          /\ nextId' = st.nextId
          /\ mReadLock' = IF last THEN 0 ELSE mReadLock
          /\ thr' = [thr EXCEPT ![th].payloads = Tail(@),
                                ![th].pc = IF last THEN "unlock" ELSE "payloads",
                                ![th].err = OK]
    /\ UNCHANGED <<seqVars, container, file, initVars, regionVars,
                   mDataPacketCurrentOffset, hist>>

\* Lines 534 and 544-546: the end of the loop body releases the lock that
\* line 541 released already; the loop goes round or read_l returns the error.
ConcUnlock(th) ==
    /\ thr[th].pc = "unlock"
    /\ \E l \in Unlock(tracks[th].lock, th) :
          tracks' = [tracks EXCEPT ![th].lock = l]
    /\ thr' = [thr EXCEPT ![th] = IF @.err = OK THEN [@ EXCEPT !.pc = "read_l"]
                                       ELSE Returned(@, @.err)]
    /\ UNCHANGED <<seqVars, mReadLock, container, file, initVars, regionVars,
                   mDataPacketCurrentOffset, mem, nextId, hist>>

(***************************************************************************)
(* The specifications.                                                     *)
(***************************************************************************)
Next ==
    \/ Initialize
    \/ IndexScanRead
    \/ IndexScanStep
    \/ InitializeEnd
    \/ CountTracks
    \/ \E index \in 0..2 : GetTrack(index)
    \/ \E index \in 0..1, o \in {NoOptions, NonSeekOptions} \cup SeekOptions : ReadCall(index, o)
    \/ ReadLPop
    \/ ReadLEndOfRegion
    \/ ReadLPacket

Spec == Init /\ [][Next]_vars

NextFrag ==
    \/ Initialize
    \/ InitializeEnd
    \/ GetTrack(0)
    \/ ReadCall(0, NoOptions)
    \/ ReadLPop
    \/ ReadLEndOfRegion
    \/ ReadLPacket

SpecFrag == InitFrag /\ [][NextFrag]_vars

\* The same operations on the containers of SpecCopy.
SpecCopy == InitCopy /\ [][NextFrag]_vars

\* The seek requests of the threads of SpecConc.
ConcSeekOptions == { SeekTo(0, "SEEK_CLOSEST_SYNC"), SeekTo(1000, "SEEK_NEXT_SYNC") }

NextConc ==
    \/ Initialize
    \/ IndexScanRead
    \/ IndexScanStep
    \/ InitializeEnd
    \/ \E index \in 0..1 : GetTrack(index)
    \/ \E th \in Threads :
          \/ \E o \in {NoOptions} \cup ConcSeekOptions : ConcCall(th, o)
          \/ ConcSeekLock(th)
          \/ ConcSeek(th)
          \/ ConcFlushLock(th)
          \/ ConcFlush(th)
          \/ ConcSeekReturn(th)
          \/ ConcReadLLock(th)
          \/ ConcCheck(th)
          \/ ConcRemove(th)
          \/ ConcReadPacket(th)
          \/ ConcPayload(th)
          \/ ConcUnlock(th)

SpecConc == InitConc /\ [][NextConc]_vars

\* initialize() alone; the thread that runs it keeps running.
NextScan ==
    \/ Initialize
    \/ IndexScanRead
    \/ IndexScanStep
    \/ InitializeEnd
    \/ CountTracks

SpecScan == InitScan /\ [][NextScan]_vars /\ WF_vars(NextScan)

\* Reads without options on tracks that may be active or not.
NextSkip ==
    \/ Initialize
    \/ InitializeEnd
    \/ \E index \in 0..2 : GetTrack(index)
    \/ \E index \in 0..1 : ReadCall(index, NoOptions)
    \/ ReadLPop
    \/ ReadLEndOfRegion
    \/ ReadLPacket

SpecSkip == InitSkip /\ [][NextSkip]_vars

\* A step of thread th inside a call of read().
Proceeds(th) ==
    \/ ConcSeekLock(th)
    \/ ConcSeek(th)
    \/ ConcFlushLock(th)
    \/ ConcFlush(th)
    \/ ConcSeekReturn(th)
    \/ ConcReadLLock(th)
    \/ ConcCheck(th)
    \/ ConcRemove(th)
    \/ ConcReadPacket(th)
    \/ ConcPayload(th)
    \/ ConcUnlock(th)

\* The seek requests of the threads of SpecLive: to the first packet, and to
\* the packet after the one that follows the packet region.
LiveSeekOptions ==
    { SeekTo(0, "SEEK_CLOSEST_SYNC"),
      SeekTo((LivePackets + 1) * MsToUs, "SEEK_CLOSEST_SYNC") }

\* The threads of SpecConc with counted calls.  A thread inside a call of
\* read() that can make a step is scheduled eventually; no thread has to
\* call read().
NextLive ==
    \/ Initialize
    \/ IndexScanRead
    \/ IndexScanStep
    \/ InitializeEnd
    \/ \E index \in 0..1 : GetTrack(index)
    \/ \E th \in Threads :
          \/ \E o \in {NoOptions} \cup LiveSeekOptions : ConcCall(th, o)
          \/ ConcSeekLock(th)
          \/ ConcSeek(th)
          \/ ConcFlushLock(th)
          \/ ConcFlush(th)
          \/ ConcSeekReturn(th)
          \/ ConcReadLLock(th)
          \/ ConcCheck(th)
          \/ ConcRemove(th)
          \/ ConcReadPacket(th)
          \/ ConcPayload(th)
          \/ ConcUnlock(th)

SpecLive == InitLive /\ [][NextLive]_vars /\ \A th \in Threads : WF_vars(Proceeds(th))

(***************************************************************************)
(* Fragment reassembly (SpecFrag).  tracks[t].run holds the payload        *)
(* entries the track received since its latest first fragment, and         *)
(* tracks[t].runOut the buffers pushed to its queue for them.              *)
(***************************************************************************)
\* The entries are fragments of one object, at strictly increasing offsets
\* from 0, and none before the last one ends the object.
InOrderRun(run) ==
    /\ run # <<>>
    /\ IsFirstFragment(run[1])
    /\ \A k \in 1..Len(run) :
          /\ run[k].mediaObjectLength = run[1].mediaObjectLength
          /\ run[k].offsetIntoMediaObject + run[k].payloadSize <= run[k].mediaObjectLength
    /\ \A k \in 1..(Len(run) - 1) :
          /\ run[k].offsetIntoMediaObject < run[k + 1].offsetIntoMediaObject
          /\ run[k].offsetIntoMediaObject + run[k].payloadSize < run[k].mediaObjectLength

\* The last entry received ends the object.
RunComplete(run) ==
    LET p == run[Len(run)]
    IN p.offsetIntoMediaObject + p.payloadSize = p.mediaObjectLength

\* Entry k of the run covers position pos of the object.
Covers(run, k, pos) ==
    /\ pos >= run[k].offsetIntoMediaObject
    /\ pos < run[k].offsetIntoMediaObject + run[k].payloadSize

\* The bytes c are the fragments of the run placed at their offsets: each
\* position holds the byte of the latest fragment that covers it, and no
\* byte where no fragment does.
PlacedAtOffsets(c, run) ==
    \A pos \in DOMAIN c :
        LET ks == { k \in 1..Len(run) : Covers(run, k, pos) } IN
        IF ks = {} THEN c[pos] = Uninit
        ELSE LET k == CHOOSE i \in ks : \A j \in ks : j <= i
             IN c[pos] = run[k].payloadData[pos - run[k].offsetIntoMediaObject + 1]

\* C1: on an active non-encrypted track, while the fragments of one object
\* arrive at strictly increasing offsets from 0, nothing is pushed for the
\* first and the middle fragments and the in-progress slot holds the object;
\* once the last fragment is processed exactly one buffer has been pushed,
\* with range [0, objectLength) and the fragments at their offsets as its
\* content, and the in-progress slot is empty.
C1_PlainTrackPushesOnceWhenComplete ==
    \A t \in 1..Len(tracks) :
        LET tr == tracks[t] IN
        (~tr.skipTrack /\ ~tr.encrypted /\ InOrderRun(tr.run)) =>
            IF ~RunComplete(tr.run)
            THEN /\ tr.runOut = <<>>
                 /\ tr.bufferActive # NoBuffer
            ELSE /\ Len(tr.runOut) = 1
                 /\ tr.runOut[1].rangeOffset = 0
                 /\ tr.runOut[1].rangeLength = tr.run[1].mediaObjectLength
                 /\ PlacedAtOffsets(Content(mem, tr.runOut[1]), tr.run)
                 /\ tr.bufferActive = NoBuffer

\* A non-encrypted track has received a first, a middle and the last
\* fragment of one object, in order.
C1_Witness ==
    \E t \in 1..Len(tracks) :
        /\ ~tracks[t].skipTrack /\ ~tracks[t].encrypted
        /\ InOrderRun(tracks[t].run)
        /\ Len(tracks[t].run) = 3
        /\ RunComplete(tracks[t].run)

\* The memcpy calls ws wrote every position below len, at strictly
\* increasing offsets.
WrittenInOrder(ws, len) ==
    /\ \A pos \in 0..(len - 1) : ApplyWrites(ws, pos) # Uninit
    /\ \A k \in 1..(Len(ws) - 1) : ws[k].off < ws[k + 1].off

\* C2: on a non-encrypted track, every buffer queued as a completed object
\* has had all of [0, objectLength) written, by fragments at strictly
\* increasing offsets (a fragment that does not continue the object in
\* progress is discarded).
C2_QueuedObjectsWrittenInOrder ==
    \A t \in 1..Len(tracks) :
        ~tracks[t].encrypted =>
            \A k \in 1..Len(tracks[t].pushed) :
                WrittenInOrder(mem[tracks[t].pushed[k].alloc],
                               tracks[t].pushed[k].rangeLength)

CallsRead == pc = "idle" /\ (pc' = "read_l" \/ hist'.calls # hist.calls)

\* The step is a call of readPacket().
CallsReadPacket == pc = "read_l" /\ tracks[cur.track].bufferQueue = <<>>

\* The queues of the tracks ts.
Queues(ts) == [i \in 1..Len(ts) |-> ts[i].bufferQueue]

\* The translation of the seek request o.
Translation(o) ==
    ParserSeek(container, indexLoaded, o.timeUs * SCALE_100_NANOSEC_TO_USEC, NextSync(o))

\* C4: a read carrying a seek request other than the latest one is the first
\* submission of a logical seek: when the translation succeeds it executes
\* the translation, the cursor recomputation and the flush, and leaves all
\* queues empty.  A read carrying the same request on another track, right
\* after the read that executed it, clears that track's mark and returns
\* without translating or flushing, keeping the queues.
C4_LogicalSeekExecutedOnceByFirstTrack ==
    [][(CallsRead /\ cur'.options.seekTo) =>
          LET t == cur'.track
              o == cur'.options
              r == Translation(o)
          IN /\ (o # hist.logical /\ r.ok) =>
                   /\ cur'.seek = "executed"
                   /\ mDataPacketCurrentOffset' =
                          mDataPacketBeginOffset + r.packetNumber * mDataPacketSize
                   /\ \A i \in 1..Len(tracks) : tracks'[i].bufferQueue = <<>>
             /\ (cur.seek = "executed" /\ cur.options = o /\ cur.track # t) =>
                   /\ cur'.seek = "skipped"
                   /\ ~tracks'[t].seekCompleted
                   /\ mDataPacketCurrentOffset' = mDataPacketCurrentOffset
                   /\ Queues(tracks') = Queues(tracks)]_vars

\* C5: without an index, a read carrying a seek request on a track whose
\* mark is clear returns an outcome that is neither success nor end of
\* stream and leaves the cursor and the queues unchanged.
C5_SeekWithoutIndexIsUnsupported ==
    [][(CallsRead /\ cur'.options.seekTo /\ ~indexLoaded
            /\ ~tracks[cur'.track].seekCompleted) =>
          /\ pc' = "idle"
          /\ ret'.op = "read"
          /\ ret'.err \notin {OK, ERROR_END_OF_STREAM}
          /\ mDataPacketCurrentOffset' = mDataPacketCurrentOffset
          /\ Queues(tracks') = Queues(tracks)]_vars

\* C7: after a successful initialization every countTracks() returns the
\* number of audio descriptors plus the number of video descriptors of the
\* container.
C7_CountIsAudioPlusVideo ==
    (mInitialized /\ ret.op = "countTracks") =>
        ret.n = Len(container.audio) + Len(container.video)

\* No packet read so far failed to be read or parsed.
NoFailure == \A k \in DOMAIN file : file[k].kind \in {"unread", "ok"}

\* Without a seek request and without a failure, a read that returns end of
\* stream has demultiplexed every whole packet of the region.
AllPacketsDemuxed ==
    (pc = "idle" /\ ret.op = "read" /\ ret.err = ERROR_END_OF_STREAM
        /\ hist.logical = NoOptions /\ NoFailure) =>
        hist.demuxed = (mDataPacketEndOffset - mDataPacketBeginOffset) \div mDataPacketSize

\* C8: readPacket returns end of stream without reading exactly when cursor
\* + packetSize > end, and reads the packet at the cursor otherwise; so
\* without a seek and without a failure exactly floor((end - begin) /
\* packetSize) packets are demultiplexed before end of stream; and once the
\* cursor is there only an executed seek takes it back, so every later read
\* on an empty queue returns end of stream.
C8_EndOfStreamAtRegionEnd ==
    [][/\ CallsReadPacket =>
             IF mDataPacketCurrentOffset + mDataPacketSize > mDataPacketEndOffset
             THEN /\ pc' = "idle"
                  /\ ret'.op = "read"
                  /\ ret'.err = ERROR_END_OF_STREAM
                  /\ file' = file
                  /\ mDataPacketCurrentOffset' = mDataPacketCurrentOffset
             ELSE LET k == PacketAt(mDataPacketBeginOffset, mDataPacketSize,
                                    mDataPacketCurrentOffset)
                  IN /\ file'[k] # Unread
                     /\ hist'.lastRead # "end"
       /\ AllPacketsDemuxed'
       /\ (/\ mInitialized
           /\ mDataPacketCurrentOffset + mDataPacketSize > mDataPacketEndOffset
           /\ ~(mDataPacketCurrentOffset' + mDataPacketSize' > mDataPacketEndOffset')) =>
             (CallsRead /\ cur'.seek = "executed")]_vars

\* A read returned end of stream at the end of a region that is not a whole
\* number of packets, after every packet was demultiplexed.
C8_Witness ==
    /\ pc = "idle" /\ ret.op = "read" /\ ret.err = ERROR_END_OF_STREAM
    /\ hist.lastRead = "end" /\ hist.logical = NoOptions /\ NoFailure
    /\ hist.demuxed = NumPackets
    /\ (mDataPacketEndOffset - mDataPacketBeginOffset) % mDataPacketSize # 0

\* The kKeyTime values of the buffers bs never decrease.
NonDecreasingTimes(bs) ==
    \A i \in 1..(Len(bs) - 1) : bs[i].time <= bs[i + 1].time

\* C9: the buffers a track's reads returned, followed by its queue, are the
\* buffers pushed to the queue since the latest seek, in push order; and
\* before any seek the buffers returned have non-decreasing timestamps
\* (payload times never decrease with the packet number in this model).
C9_FifoAndNonDecreasingTimes ==
    \A t \in 1..Len(tracks) :
        /\ tracks[t].pushed = tracks[t].popped \o tracks[t].bufferQueue
        /\ hist.achievedUs = NoSeek => NonDecreasingTimes(tracks[t].popped)

\* The step is a call of readPacket() that reads a packet the parser rejects.
MeetsMalformedPacket ==
    /\ CallsReadPacket
    /\ mDataPacketCurrentOffset + mDataPacketSize <= mDataPacketEndOffset
    /\ file'[PacketAt(mDataPacketBeginOffset, mDataPacketSize,
                      mDataPacketCurrentOffset)].kind = "malformed"

\* C10 as claimed: the read call that meets a malformed packet does not
\* return; it goes on with the next packet.
C10_MalformedPacketAbsorbed ==
    [][MeetsMalformedPacket =>
          /\ pc' = "read_l"
          /\ mDataPacketCurrentOffset' = mDataPacketCurrentOffset + mDataPacketSize]_vars

\* C10 as amended: the read call that meets a malformed packet returns end
\* of stream to its caller, with the cursor on the next packet and no track
\* and no buffer changed.
C10_MalformedPacketEndsTheRead ==
    [][MeetsMalformedPacket =>
          /\ pc' = "idle"
          /\ ret'.op = "read"
          /\ ret'.err = ERROR_END_OF_STREAM
          /\ mDataPacketCurrentOffset' = mDataPacketCurrentOffset + mDataPacketSize
          /\ tracks' = tracks
          /\ mem' = mem]_vars

\* A read returned the buffer of the packet right after a malformed one,
\* no seek having been executed.
C10_Witness ==
    /\ pc = "idle" /\ ret.op = "read" /\ ret.err = OK
    /\ hist.achievedUs = NoSeek
    /\ \E k \in DOMAIN file :
          /\ k + 1 \in DOMAIN file
          /\ file[k].kind = "malformed"
          /\ file[k + 1].kind = "ok"
          /\ ret.buffer.time = PacketMs(k + 1) * MsToUs

(***************************************************************************)
(* Seeking under concurrent reads (SpecConc).                              *)
(***************************************************************************)
\* C6: packet k carries presentation time k and the time a seek achieves is
\* the time of its target packet; then under every interleaving of the
\* threads, a read that returns after an executed seek returned never
\* returns a buffer with a timestamp before the time that seek achieved.
C6_NoBufferFromBeforeTheSeek ==
    [][\A th \in Threads :
          (thr[th].pc = "remove" /\ thr'[th].pc = "idle" /\ hist.achievedUs # NoSeek) =>
              thr[th].buffer.time >= hist.achievedUs]_vars

(***************************************************************************)
(* Locking (SpecConc).                                                     *)
(***************************************************************************)
\* The step is a step of thread th.
StepOf(th) == thr'[th] # thr[th]

\* The step changes the queue of track t, its in-progress buffer, or the
\* bytes of its in-progress buffer.
Mutates(t) ==
    \/ tracks'[t].bufferQueue # tracks[t].bufferQueue
    \/ tracks'[t].bufferActive # tracks[t].bufferActive
    \/ /\ tracks[t].bufferActive # NoBuffer
       /\ mem'[tracks[t].bufferActive.alloc] # mem[tracks[t].bufferActive.alloc]

\* Thread th holds the lock of track t while it makes the step: it took the
\* lock in an earlier step and still holds it, or the step is a payload
\* entry that pushes to the queue of t, which takes the lock for the push.
HoldsTrackLock(th, t) ==
    \/ tracks[t].lock = th
    \/ thr[th].pc = "payloads" /\ tracks'[t].pushed # tracks[t].pushed

\* C11: every step of a thread that changes the queue of a track, its
\* in-progress buffer or the bytes of that buffer is made while the thread
\* holds the lock of that track.
C11_TrackStateMutatedUnderTrackLock ==
    [][\A th \in Threads : \A t \in 1..Len(tracks) :
          (StepOf(th) /\ Mutates(t)) => HoldsTrackLock(th, t)]_vars

\* The track locks thread th holds.
TrackLocksOf(th) == { t \in 1..Len(tracks) : tracks[t].lock = th }

\* Thread th is about to take mReadLock (lines 445 and 550).
TakesReadLock(th) == thr[th].pc \in {"seek_l", "readPacket"}

\* Thread th is about to take a track lock inside seek_l or readPacket
\* (lines 507, 602, 609, 634, 638 and 646).
TakesTrackLockInside(th) ==
    \/ thr[th].pc = "flush_lock" /\ thr[th].flush <= Len(tracks)
    \/ thr[th].pc = "payloads"

\* C12: a thread about to take mReadLock holds no track lock; no thread
\* holds two track locks; a thread about to take a track lock holds no
\* other track lock, and holds mReadLock (inside seek_l and readPacket) or
\* no lock at all (in read_l); and whenever a thread is inside a call of
\* read(), some thread inside a call can make a step.
C12_LockDisciplineAndNoDeadlock ==
    /\ \A th \in Threads :
          /\ TakesReadLock(th) => (TrackLocksOf(th) = {} /\ mReadLock # th)
          /\ Cardinality(TrackLocksOf(th)) <= 1
          /\ TakesTrackLockInside(th) => (TrackLocksOf(th) = {} /\ mReadLock = th)
          /\ thr[th].pc = "read_l" => (TrackLocksOf(th) = {} /\ mReadLock # th)
    /\ (\E th \in Threads : thr[th].pc # "idle") =>
          \E th \in Threads : ENABLED Proceeds(th)

\* Thread 1 holds mReadLock inside seek_l and waits for the lock of track 2,
\* which thread 2 holds inside read_l.
C12_Witness ==
    /\ thr[1].pc = "flush_lock" /\ thr[1].flush = 2 /\ mReadLock = 1
    /\ tracks[2].lock = 2 /\ thr[2].pc \in {"check", "remove"}

(***************************************************************************)
(* The read cursor (Spec).                                                 *)
(***************************************************************************)
\* C13: once initialized, begin <= cursor <= end, and the cursor is a whole
\* number of packets after begin, whatever packet number a translation
\* returned.
C13_CursorWithinRegion ==
    mInitialized =>
        /\ mDataPacketBeginOffset <= mDataPacketCurrentOffset
        /\ mDataPacketCurrentOffset <= mDataPacketEndOffset
        /\ (mDataPacketCurrentOffset - mDataPacketBeginOffset) % mDataPacketSize = 0

(***************************************************************************)
(* The index scan of initialize() (SpecScan).                              *)
(***************************************************************************)
\* C14: whatever objects follow the data object and whatever sizes they
\* declare, the index scan ends and initialize() returns.
C14_IndexScanTerminates == <>(initPc \in {"done", "failed"})

(***************************************************************************)
(* The effects of a seek (Spec).                                           *)
(***************************************************************************)
\* The step is a call of read() with a seek request on a track whose mark is
\* clear.
SubmitsSeek == CallsRead /\ cur'.options.seekTo /\ ~tracks[cur'.track].seekCompleted

\* C15: when a read carries a seek request on a track A whose mark is clear
\* and the translation succeeds, then as seek_l returns every track, active
\* or not, has an empty queue and no in-progress buffer, the cursor is
\* begin + packetNumber * packetSize, every other track has its mark set
\* and the mark of A is clear.
C15_StateAfterExecutedSeek ==
    [][(SubmitsSeek /\ Translation(cur'.options).ok) =>
          /\ \A i \in 1..Len(tracks) :
                /\ tracks'[i].bufferQueue = <<>>
                /\ tracks'[i].bufferActive = NoBuffer
                /\ tracks'[i].seekCompleted = (i # cur'.track)
          /\ mDataPacketCurrentOffset' =
                 mDataPacketBeginOffset
                     + Translation(cur'.options).packetNumber * mDataPacketSize]_vars

\* A seek was executed on one of two tracks and released three buffers,
\* queued or in progress.
C15_Witness ==
    /\ pc = "read_l" /\ cur.seek = "executed" /\ ret = Pending
    /\ cur.flushed >= 3
    /\ Len(tracks) = 2

\* C16: when a read carries a seek request on a track whose mark is clear
\* and the translation fails, the read returns end of stream with no
\* buffer, without reading a packet, and leaves the cursor and every track
\* (queue, in-progress buffer, mark) and every buffer as they were.
C16_FailedTranslationChangesNothing ==
    [][(SubmitsSeek /\ ~Translation(cur'.options).ok) =>
          /\ pc' = "idle"
          /\ ret' = [NoReturn EXCEPT !.op = "read", !.track = cur'.track,
                                     !.err = ERROR_END_OF_STREAM]
          /\ mDataPacketCurrentOffset' = mDataPacketCurrentOffset
          /\ tracks' = tracks
          /\ file' = file
          /\ mem' = mem]_vars

\* A translation failed with an index loaded, while another track had its
\* mark set and a queued buffer, and some track a buffer in progress.
C16_Witness ==
    /\ pc = "idle" /\ cur.seek = "failed" /\ ret.op = "read"
    /\ indexLoaded
    /\ \E i \in 1..Len(tracks) :
          i # cur.track /\ tracks[i].seekCompleted /\ tracks[i].bufferQueue # <<>>
    /\ \E i \in 1..Len(tracks) : tracks[i].bufferActive # NoBuffer

(***************************************************************************)
(* The cursor and readPacket (Spec).                                       *)
(***************************************************************************)
\* The step is an executed seek.
ExecutesSeek == CallsRead /\ cur'.seek = "executed"

\* C17: a call of readPacket leaves the cursor and the tracks unchanged
\* when the packet would cross the end of the region or the byte source
\* delivers it short; it moves the cursor by one packet when the packet was
\* read in full, also when the parser rejects it, and then no track and no
\* buffer changes.  No step but an executed seek changes the cursor
\* otherwise, so the cursor never returns to a packet read in full.
C17_CursorStepsByOnePacket ==
    [][/\ CallsReadPacket =>
             LET k == PacketAt(mDataPacketBeginOffset, mDataPacketSize,
                               mDataPacketCurrentOffset)
             IN IF mDataPacketCurrentOffset + mDataPacketSize > mDataPacketEndOffset
                THEN /\ mDataPacketCurrentOffset' = mDataPacketCurrentOffset
                     /\ tracks' = tracks /\ mem' = mem /\ file' = file
                ELSE IF file'[k].kind = "short"
                THEN /\ mDataPacketCurrentOffset' = mDataPacketCurrentOffset
                     /\ tracks' = tracks /\ mem' = mem
                ELSE /\ mDataPacketCurrentOffset' =
                            mDataPacketCurrentOffset + mDataPacketSize
                     /\ file'[k].kind = "malformed" => (tracks' = tracks /\ mem' = mem)
                     /\ file'[k].kind = "ok" => hist'.demuxed = hist.demuxed + 1
       /\ (mInitialized /\ mDataPacketCurrentOffset' # mDataPacketCurrentOffset) =>
             (CallsReadPacket \/ ExecutesSeek)]_vars

\* A read met a packet the parser rejects while a track had a buffer in
\* progress, and returned with the cursor after that packet.
C17_Witness ==
    /\ pc = "idle" /\ ret.op = "read" /\ hist.lastRead = "malformed"
    /\ hist.achievedUs = NoSeek
    /\ \E i \in 1..Len(tracks) : tracks[i].bufferActive # NoBuffer
    /\ \E k \in DOMAIN file :
          /\ file[k].kind = "malformed"
          /\ mDataPacketCurrentOffset = mDataPacketBeginOffset + (k + 1) * mDataPacketSize

(***************************************************************************)
(* Inactive tracks and unknown streams (SpecSkip).                         *)
(***************************************************************************)
\* The payload entry p is for a stream without a track or for an inactive
\* track.
Skipped(p) ==
    LET t == getTrackByStreamNumber(tracks, p.streamNumber)
    IN t = 0 \/ tracks[t].skipTrack

\* The MediaBuffer objects made for a whole object or a first fragment p
\* (the packets of SpecSkip hold no other entries): none when p is skipped,
\* else the buffer, and its clone on an encrypted track.
Allocations(p) ==
    IF Skipped(p) THEN 0
    ELSE IF IsFirstFragment(p)
              /\ tracks[getTrackByStreamNumber(tracks, p.streamNumber)].encrypted
    THEN 2
    ELSE 1

RECURSIVE SumAllocations(_)
SumAllocations(ps) ==
    IF ps = <<>> THEN 0 ELSE Allocations(Head(ps)) + SumAllocations(Tail(ps))

\* The step is a call of getTrack().
CallsGetTrack ==
    /\ mInitialized /\ pc = "idle"
    /\ UNCHANGED <<pc, cur, ret, hist, file, mem, nextId, mDataPacketCurrentOffset>>

\* C18: the tracks are made inactive; only getTrack makes a track active
\* and nothing makes it inactive again; an inactive track has an empty
\* queue and no buffer in progress; and a readPacket whose packet has
\* entries for inactive tracks or unknown streams returns OK, makes no
\* buffer for them and leaves the inactive tracks alone, while every whole
\* object for an active track in the same packet is queued on its track.
C18_InactiveTracksReceiveNothing ==
    [][/\ (tracks = <<>> /\ tracks' # <<>>) =>
             \A i \in 1..Len(tracks') : tracks'[i].skipTrack
       /\ tracks # <<>> =>
             /\ Len(tracks') = Len(tracks)
             /\ \A i \in 1..Len(tracks) :
                   /\ ~tracks[i].skipTrack => ~tracks'[i].skipTrack
                   /\ (tracks[i].skipTrack /\ ~tracks'[i].skipTrack) => CallsGetTrack
       /\ \A i \in 1..Len(tracks') :
             tracks'[i].skipTrack =>
                 (tracks'[i].bufferQueue = <<>> /\ tracks'[i].bufferActive = NoBuffer)
       /\ (CallsReadPacket /\ file' # file) =>
             LET ps == file'[PacketAt(mDataPacketBeginOffset, mDataPacketSize,
                                     mDataPacketCurrentOffset)].payloads
             IN /\ pc' = "read_l"
                /\ nextId' = nextId + SumAllocations(ps)
                /\ \A i \in 1..Len(tracks) : tracks[i].skipTrack => tracks'[i] = tracks[i]
                /\ \A j \in 1..Len(ps) :
                      (~Skipped(ps[j]) /\ IsWhole(ps[j])) =>
                          LET q == tracks'[getTrackByStreamNumber(tracks,
                                                ps[j].streamNumber)].bufferQueue
                          IN \E n \in 1..Len(q) :
                                /\ q[n].id >= nextId
                                /\ mem'[q[n].alloc] = <<[off |-> 0, data |-> ps[j].payloadData]>>
      ]_vars

\* Track 1 is active and track 2 is not; packet 0 held an entry for track 2
\* and then a whole object for track 1, packet 1 an entry for a stream
\* without a track and then a whole object for track 1; both objects of
\* track 1 were queued.
C18_Witness ==
    /\ Len(tracks) = 2 /\ ~tracks[1].skipTrack /\ tracks[2].skipTrack
    /\ file[0].kind = "ok" /\ Len(file[0].payloads) = 2
    /\ file[0].payloads[1].streamNumber = 2 /\ file[0].payloads[2].streamNumber = 1
    /\ file[1].kind = "ok" /\ Len(file[1].payloads) = 2
    /\ file[1].payloads[1].streamNumber = 3 /\ file[1].payloads[2].streamNumber = 1
    /\ Len(tracks[1].pushed) = 2

(***************************************************************************)
(* The pull loop under concurrent reads (SpecConc).                        *)
(***************************************************************************)
\* The in-progress buffers of the tracks ts.
Actives(ts) == [i \in 1..Len(ts) |-> ts[i].bufferActive]

\* C19: a thread that finds the queue of its track non-empty takes the head
\* of the queue and returns it with OK, without calling readPacket and
\* without changing the cursor, another queue or an in-progress buffer; and
\* a thread whose read returns an error returns the status of its
\* readPacket, at a moment when the queue of its track is empty.
C19_PopsHeadAndFailsOnlyOnEmptyQueue ==
    [][\A th \in Threads :
          /\ (thr[th].pc = "check" /\ StepOf(th) /\ tracks[th].bufferQueue # <<>>) =>
                /\ thr'[th].pc = "remove"
                /\ thr'[th].buffer = Head(tracks[th].bufferQueue)
                /\ Queues(tracks') = Queues(tracks)
          /\ (thr[th].pc = "remove" /\ StepOf(th)) =>
                /\ thr'[th].pc = "idle" /\ thr'[th].err = OK
                /\ thr'[th].buffer = thr[th].buffer
                /\ \A i \in 1..Len(tracks) :
                      i # th => tracks'[i].bufferQueue = tracks[i].bufferQueue
          /\ (thr[th].pc \in {"check", "remove"} /\ StepOf(th)) =>
                /\ mDataPacketCurrentOffset' = mDataPacketCurrentOffset
                /\ Actives(tracks') = Actives(tracks)
                /\ file' = file
          /\ (thr[th].pc = "unlock" /\ StepOf(th) /\ thr'[th].pc = "idle") =>
                /\ thr'[th].err = thr[th].err
                /\ thr'[th].err # OK
                /\ tracks[th].bufferQueue = <<>>]_vars

(***************************************************************************)
(* C20: termination of read().                                             *)
(***************************************************************************)
\* Thread th calls readPacket in this step.
ThreadCallsReadPacket(th) == thr[th].pc = "readPacket" /\ thr'[th].pc # "readPacket"

\* Every call of read() returns.
ReadReturns == \A th \in Threads : (thr[th].pc # "idle") ~> (thr[th].pc = "idle")

\* An iteration of the pull loop returns or advances the cursor by one packet.
IterationAdvances ==
    [][\A th \in Threads :
          ThreadCallsReadPacket(th) =>
             \/ thr'[th].err # OK
             \/ mDataPacketCurrentOffset' = mDataPacketCurrentOffset + mDataPacketSize]_vars

\* A read that no seek of another thread disturbs calls readPacket at most
\* (end - cursor) / packetSize + 1 times.
WithinBudget == \A th \in Threads : ~thr[th].disturbed => thr[th].budget >= 0

\* C20: under fair scheduling every call of read() on an active track
\* returns, whatever reads and seeks the other threads make; each iteration
\* of its pull loop returns or advances the cursor by one packet, and a read
\* that no concurrent seek disturbs calls readPacket at most
\* (end - cursor) / packetSize + 1 times, cursor being the cursor its pull
\* loop began with.
C20_ReadReturnsWithinBudget == ReadReturns /\ IterationAdvances /\ []WithinBudget


(***************************************************************************)
(* C21: ownership of the track locks.                                      *)
(***************************************************************************)
\* Thread th is inside a critical section of track t: the queue test and the
\* removal of read_l (536-539), or the flush of seek_l (508-525).
InSection(th, t) ==
    \/ th = t /\ thr[th].pc \in {"check", "remove"}
    \/ thr[th].pc = "flush" /\ thr[th].flush = t

\* Thread th calls unlock() on the lock of its track in this step: line 541,
\* the return of line 539, and the end of the loop body.
UnlocksTrackLock(th) ==
    /\ StepOf(th)
    /\ \/ thr[th].pc = "check" /\ tracks[th].bufferQueue = <<>>
       \/ thr[th].pc = "remove"
       \/ thr[th].pc = "unlock"

\* A lock that is held changes hands only by a step of its holder.
ReleasedByHolder ==
    [][\A t \in 1..Len(tracks) :
          (Len(tracks') = Len(tracks) /\ tracks[t].lock # 0
             /\ tracks'[t].lock # tracks[t].lock) => StepOf(tracks[t].lock)]_vars

\* Every unlock() is made by the holder of the lock: once per acquisition.
UnlocksHeldLock ==
    [][\A th \in Threads : UnlocksTrackLock(th) => tracks[th].lock = th]_vars

\* At most one thread is inside a critical section of a track, and it holds
\* the lock of the track.
OneThreadPerSection ==
    \A t \in 1..Len(tracks) : \A th \in Threads :
       InSection(th, t) =>
          /\ tracks[t].lock = th
          /\ \A other \in Threads \ {th} : ~InSection(other, t)

\* C21: a track lock is released only by the thread that holds it and once
\* per acquisition, so at most one thread at a time is inside a critical
\* section of a track; the unlock of line 541 followed by the release at the
\* end of the loop body never releases a lock another thread holds.
C21_TrackLockReleasedOnceByHolder ==
    ReleasedByHolder /\ UnlocksHeldLock /\ []OneThreadPerSection


(***************************************************************************)
(* C22: the copies of payload bytes stay inside the allocation.            *)
(***************************************************************************)
\* The buffers the tracks ts hold in progress or have pushed.
BuffersOf(ts) ==
    UNION { {ts[t].bufferActive} \cup { ts[t].pushed[k] : k \in 1..Len(ts[t].pushed) } :
            t \in 1..Len(ts) }

\* The memcpy calls this step makes into allocation a.
NewWrites(a) ==
    LET old == IF a \in DOMAIN mem THEN Len(mem[a]) ELSE 0
    IN { mem'[a][k] : k \in (old + 1)..Len(mem'[a]) }

\* C22: every memcpy of payload bytes (lines 588-590 and 623-626) ends
\* inside the allocation it writes to, whose size is roundUp4096 of the
\* object length of the entry that created the buffer, for every sequence of
\* payload entries the parser delivers.
C22_CopiesStayInsideAllocation ==
    [][\A a \in DOMAIN mem' : \A w \in NewWrites(a) :
          \A b \in BuffersOf(tracks') :
             b.alloc = a => w.off + Len(w.data) <= b.size]_vars


(***************************************************************************)
(* C23: which seek requests are skipped (Spec).                            *)
(***************************************************************************)
\* A seek request is skipped only when it asks for the time of the latest
\* executed seek; any other request is translated, and when the translation
\* succeeds the cursor is set from it.
SkipsOnlyDuplicates ==
    [][(CallsRead /\ cur'.options.seekTo) =>
          LET o == cur'.options
              r == Translation(o)
          IN /\ cur'.seek = "skipped" => o.timeUs = hist.executedUs
             /\ o.timeUs # hist.executedUs =>
                   /\ cur'.seek = IF r.ok THEN "executed" ELSE "failed"
                   /\ r.ok => mDataPacketCurrentOffset' =
                                  mDataPacketBeginOffset
                                  + r.packetNumber * mDataPacketSize]_vars

\* The mark of a track is cleared only by a read on it that carries a seek
\* request.
MarkClearedBySeekRequest ==
    [][\A t \in 1..Len(tracks) :
          (Len(tracks') = Len(tracks) /\ tracks[t].seekCompleted
             /\ ~tracks'[t].seekCompleted) =>
                CallsRead /\ cur'.track = t /\ cur'.options.seekTo]_vars

\* C23: a read skips its seek request without translation only when the
\* request duplicates the latest executed seek: after a seek to T1 executed
\* on one track, a read on another track carrying a seek to a different time
\* T2 translates T2 and repositions the cursor, whatever plain reads or
\* reads with options without a seek request came in between; and the mark
\* of a track is cleared only by a read that carries a seek request.
C23_OnlyDuplicateSeeksAreSkipped == SkipsOnlyDuplicates /\ MarkClearedBySeekRequest


(***************************************************************************)
(* C24: no reassembly buffer is lost (SpecFrag: no buffer is released).    *)
(***************************************************************************)
\* The allocations behind the buffers of the sequence q.
Allocs(q) == { q[k].alloc : k \in 1..Len(q) }

\* Allocation a is behind the in-progress buffer of track tr or behind a
\* buffer of its queue, or a caller received a buffer over it from read().
InProgressOn(tr, a) == tr.bufferActive # NoBuffer /\ tr.bufferActive.alloc = a
QueuedOn(tr, a) == a \in Allocs(tr.bufferQueue)
OwnedByCaller(a) == \E t \in 1..Len(tracks) : a \in Allocs(tracks[t].popped)

\* C24: every allocation the demultiplexer made and nothing released is
\* behind the in-progress buffer or the queue of exactly one track, or is
\* owned by a caller that received it from read(); a first fragment that
\* arrives while the track has an unfinished in-progress buffer does not
\* leave that buffer without an owner.
C24_NoBufferIsLost ==
    \A a \in DOMAIN mem :
       LET holders == { t \in 1..Len(tracks) :
                          InProgressOn(tracks[t], a) \/ QueuedOn(tracks[t], a) }
       IN /\ Cardinality(holders) <= 1
          /\ holders = {} => OwnedByCaller(a)

============================================================================
